---- MODULE Spec2Model ----
(***************************************************************************)
(* Model of recursive-compose: src/single-accumulator.py (compose with     *)
(* concurrent cleanup) and src/list-files.py (the same fold without        *)
(* cleanup).                                                               *)
(*                                                                         *)
(* Objects of the bucket are small integers.  Dest is the object at        *)
(* object_path (the accumulator); every other object o is a slice whose    *)
(* immutable content is the one-element sequence <<o>>, so the content of  *)
(* the accumulator is the sequence of the slices that were folded into it. *)
(* Time is a logical clock in milliseconds advanced by the sleeps and by   *)
(* the latency of the gateway calls.                                       *)
(***************************************************************************)
EXTENDS Integers, Sequences, FiniteSets, TLC

VARIABLES
    slices,       \* the caller's list passed to compose (line 38)
    chunk_size,   \* parameter chunk_size of generate_composition_chunks (line 20)
    remaining,    \* the generator's local variable `slices` (lines 32, 35)
    gen,          \* generator position: "fresh" or "suspended" (at the yield, line 34)
    chunk,        \* loop variable `chunk` of compose (lines 59-60)
    di,           \* index of the next blob in delete_objects_concurrent's loop (line 76)
    pc,           \* position of the main thread
    stored,       \* objects that exist in the bucket
    acc,          \* content of the object Dest (meaningful while Dest \in stored)
    created,      \* number of upload_from_file calls that created the accumulator
    composeLog,   \* ordered inputs of every compose call that returned successfully
    issued,       \* number of compose calls issued (successful or not)
    tasks,        \* targets of the submitted delete tasks, in submission order
    tstate,       \* state of each task: "queued", "running", "done", "failed"
    flaky,        \* objects whose delete the gateway rejects (DeleteFailed)
    elapsed,      \* ms since the last mutation of Dest was issued, saturated
    lastGap,      \* value of elapsed when the latest compose call was issued
    yielded       \* chunks collected from the generator by the chunker harness

vars == <<slices, chunk_size, remaining, gen, chunk, di, pc, stored, acc, created,
          composeLog, issued, tasks, tstate, flaky, elapsed, lastGap, yielded>>

(***************************************************************************)
(* Program constants                                                       *)
(***************************************************************************)
DefaultChunkSize == 31

\* "can only modify object once per second": the provider's interval, in ms
MutationInterval == 1000

\* sleep(.005) after each submit, in ms
SubmitDelay == 5

\* the object at object_path
Dest == 0

(***************************************************************************)
(* Bounds of the model                                                     *)
(***************************************************************************)
\* longest slice list passed to compose
MaxSlices == 32

\* number of workers of the executor
PoolSize == 2

\* longest latency (ms) of a gateway call
MaxLatency == 2

\* chunker harness: longest list, largest chunk size, number of slice names
MaxLen == 5

MaxChunkSize == 4

MaxName == 2

\* chunker harness: length of the one long list
LongLen == 100

Min(a, b) == IF a <= b THEN a ELSE b

Max(a, b) == IF a >= b THEN a ELSE b

Range(s) == {s[i] : i \in 1..Len(s)}

(***************************************************************************)
(* Python list slicing, as used by generate_composition_chunks             *)
(***************************************************************************)
\* the index a slice bound k denotes in a list of length n (negative k counts
\* from the end, and bounds are clamped to 0..n)
PyIndex(n, k) == IF k >= 0 THEN Min(k, n) ELSE Max(n + k, 0)

\* s[:k]
PySliceTo(s, k) == SubSeq(s, 1, PyIndex(Len(s), k))

\* s[k:]
PySliceFrom(s, k) == SubSeq(s, PyIndex(Len(s), k) + 1, Len(s))

(***************************************************************************)
(* generate_composition_chunks (lines 19-35), a generator                  *)
(***************************************************************************)
\* mutant: the resumption keeps the last slice of the chunk it handed out
GenAdvance_Overlap(rem, st, k) ==
    IF st = "suspended" THEN PySliceFrom(rem, k - 1) ELSE rem

\* mutant: line 35 is missing, the resumption leaves the list as it is
GenAdvance_Stuck(rem, st, k) == rem

\* line 35, run when the generator is resumed after a yield
GenAdvance(rem, st, k) == IF st = "suspended" THEN PySliceFrom(rem, k) ELSE rem

\* line 32: the loop test, on the list the resumption leaves
GenExhausted(rem, st, k) == Len(GenAdvance(rem, st, k)) = 0

\* mutant: the chunk takes one slice more than chunk_size
GenChunk_TooLong(rem, st, k) == PySliceTo(GenAdvance(rem, st, k), k + 1)

\* line 33: the chunk the next yield hands out
GenChunk(rem, st, k) == PySliceTo(GenAdvance(rem, st, k), k)

(***************************************************************************)
(* The storage gateway                                                     *)
(***************************************************************************)
\* content of an object: a slice holds its own name, Dest holds acc
ContentOf(o, a) == IF o = Dest THEN a ELSE <<o>>

RECURSIVE ConcatContents(_, _)
\* Blob.compose: the concatenation of the inputs' contents, in input order
ConcatContents(inputs, a) ==
    IF inputs = <<>> THEN <<>>
    ELSE ContentOf(Head(inputs), a) \o ConcatContents(Tail(inputs), a)

\* a compose call is rejected (NotFound) when one of its inputs does not exist
InputsExist(inputs, st) == \A i \in 1..Len(inputs) : inputs[i] \in st

\* latencies a gateway call may take
Latencies == {0, MaxLatency}

\* the saturating logical clock
Elapse(e, d) == Min(e + d, MutationInterval)

(***************************************************************************)
(* compose (lines 38-65)                                                   *)
(***************************************************************************)
\* mutant: the accumulator is appended to the chunk instead of prepended
ComposeInputs_Appended(c) == c \o <<Dest>>

\* line 60: chunk.insert(0, final_blob)
ComposeInputs(c) == <<Dest>> \o c

\* mutant: the whole list is handed to the cleanup after every compose call
CleanupBatch_WholeList(c) == slices

\* mutant: the whole compose input list is handed to the cleanup
CleanupBatch_WholeChunk(c) == c

\* line 62: chunk[1:], the blobs handed to delete_objects_concurrent
CleanupBatch(c) == Tail(c)

\* mutant: the pause is as short as the one between two submits
PauseTooShort == SubmitDelay

\* line 63: sleep(1) after a compose call and its dispatch, in ms
PauseAfterCompose == 1000

\* lines 56-57: create the accumulator as an empty object
Upload ==
    /\ pc = "create"
    /\ \E d \in Latencies : elapsed' = Elapse(0, d)
    /\ stored' = stored \cup {Dest}
    /\ acc' = <<>>
    /\ created' = created + 1
    /\ pc' = "iterate"
    /\ UNCHANGED <<slices, chunk_size, remaining, gen, chunk, di, composeLog, issued,
                   tasks, tstate, flaky, lastGap, yielded>>

\* line 57 raises: the gateway rejected the upload
UploadFails ==
    /\ pc = "create"
    /\ pc' = "raised"
    /\ UNCHANGED <<slices, chunk_size, remaining, gen, chunk, di, stored, acc, created,
                   composeLog, issued, tasks, tstate, flaky, elapsed, lastGap, yielded>>

\* mutant: the chunk is the caller's list itself, not a copy, so the insert
\* of line 60 lands in the caller's list
NextChunk_InsertsIntoList ==
    /\ pc = "iterate"
    /\ ~GenExhausted(remaining, gen, chunk_size)
    /\ remaining' = GenAdvance(remaining, gen, chunk_size)
    /\ gen' = "suspended"
    /\ chunk' = ComposeInputs(GenChunk(remaining, gen, chunk_size))
    /\ slices' = ComposeInputs(slices)
    /\ pc' = "compose"
    /\ UNCHANGED <<chunk_size, di, stored, acc, created, composeLog, issued,
                   tasks, tstate, flaky, elapsed, lastGap, yielded>>

\* lines 59-60: the for loop takes the next chunk and prepends the accumulator
NextChunk ==
    /\ pc = "iterate"
    /\ ~GenExhausted(remaining, gen, chunk_size)
    /\ remaining' = GenAdvance(remaining, gen, chunk_size)
    /\ gen' = "suspended"
    /\ chunk' = ComposeInputs(GenChunk(remaining, gen, chunk_size))
    /\ pc' = "compose"
    /\ UNCHANGED <<slices, chunk_size, di, stored, acc, created, composeLog, issued,
                   tasks, tstate, flaky, elapsed, lastGap, yielded>>

\* lines 59, 65: the generator is exhausted, compose returns final_blob
Return ==
    /\ pc = "iterate"
    /\ GenExhausted(remaining, gen, chunk_size)
    /\ remaining' = GenAdvance(remaining, gen, chunk_size)
    /\ gen' = "finished"
    /\ pc' = "done"
    /\ UNCHANGED <<slices, chunk_size, chunk, di, stored, acc, created, composeLog,
                   issued, tasks, tstate, flaky, elapsed, lastGap, yielded>>

\* line 61 returns: Dest now holds the concatenation of the inputs
ComposeOk ==
    /\ pc = "compose"
    /\ InputsExist(chunk, stored)
    /\ acc' = ConcatContents(chunk, acc)
    /\ composeLog' = Append(composeLog, chunk)
    /\ issued' = issued + 1
    /\ lastGap' = elapsed
    /\ \E d \in Latencies : elapsed' = Elapse(0, d)
    /\ di' = 1
    /\ pc' = "dispatch"
    /\ UNCHANGED <<slices, chunk_size, remaining, gen, chunk, stored, created,
                   tasks, tstate, flaky, yielded>>

\* mutant: the exception of line 61 is swallowed and the chunk is dispatched
ComposeFails_StillDispatches ==
    /\ pc = "compose"
    /\ issued' = issued + 1
    /\ lastGap' = elapsed
    /\ di' = 1
    /\ pc' = "dispatch"
    /\ UNCHANGED <<slices, chunk_size, remaining, gen, chunk, stored, acc, created,
                   composeLog, tasks, tstate, flaky, elapsed, yielded>>

\* line 61 raises (an input is missing, or the gateway rejects the call):
\* Dest is left as it was and the exception leaves compose
ComposeFails ==
    /\ pc = "compose"
    /\ issued' = issued + 1
    /\ lastGap' = elapsed
    /\ pc' = "raised"
    /\ UNCHANGED <<slices, chunk_size, remaining, gen, chunk, di, stored, acc, created,
                   composeLog, tasks, tstate, flaky, elapsed, yielded>>

(***************************************************************************)
(* delete_objects_concurrent (lines 68-79)                                 *)
(***************************************************************************)
\* mutant: the loop waits for the result of every delete it has submitted
Submit_WaitsForResult ==
    /\ pc = "dispatch"
    /\ di <= Len(CleanupBatch(chunk))
    /\ \A i \in 1..Len(tstate) : tstate[i] \in {"done", "failed"}
    /\ tasks' = Append(tasks, CleanupBatch(chunk)[di])
    /\ tstate' = Append(tstate, "queued")
    /\ di' = di + 1
    /\ elapsed' = Elapse(elapsed, SubmitDelay)
    /\ UNCHANGED <<slices, chunk_size, remaining, gen, chunk, pc, stored, acc, created,
                   composeLog, issued, flaky, lastGap, yielded>>

\* lines 76-79: submit the delete of the next blob, then sleep(.005)
Submit ==
    /\ pc = "dispatch"
    /\ di <= Len(CleanupBatch(chunk))
    /\ tasks' = Append(tasks, CleanupBatch(chunk)[di])
    /\ tstate' = Append(tstate, "queued")
    /\ di' = di + 1
    /\ elapsed' = Elapse(elapsed, SubmitDelay)
    /\ UNCHANGED <<slices, chunk_size, remaining, gen, chunk, pc, stored, acc, created,
                   composeLog, issued, flaky, lastGap, yielded>>

\* lines 62-63: delete_objects_concurrent returns, compose sleeps
Pause ==
    /\ pc = "dispatch"
    /\ di > Len(CleanupBatch(chunk))
    /\ elapsed' = Elapse(elapsed, PauseAfterCompose)
    /\ pc' = "iterate"
    /\ UNCHANGED <<slices, chunk_size, remaining, gen, chunk, di, stored, acc, created,
                   composeLog, issued, tasks, tstate, flaky, lastGap, yielded>>

(***************************************************************************)
(* The executor: a pool of PoolSize workers serving a FIFO queue           *)
(***************************************************************************)
Running == {i \in 1..Len(tstate) : tstate[i] = "running"}

Queued == {i \in 1..Len(tstate) : tstate[i] = "queued"}

\* mutant: every submitted task gets a thread of its own
WorkerFree_Always == TRUE

\* a worker is idle
WorkerFree == Cardinality(Running) < PoolSize

\* an idle worker takes the oldest queued task and calls blob.delete
StartDelete ==
    /\ WorkerFree
    /\ Queued # {}
    /\ LET i == CHOOSE q \in Queued : \A r \in Queued : q <= r
       IN  tstate' = [tstate EXCEPT ![i] = "running"]
    /\ UNCHANGED <<slices, chunk_size, remaining, gen, chunk, di, pc, stored, acc,
                   created, composeLog, issued, tasks, flaky, elapsed, lastGap, yielded>>

\* blob.delete succeeds exactly when the object exists and the gateway accepts
DeleteSucceeds(o, st, fl) == o \in st /\ o \notin fl

\* mutant: the exception of a delete reaches the main thread
FinishDelete_FailureAborts(i) ==
    /\ tstate[i] = "running"
    /\ IF DeleteSucceeds(tasks[i], stored, flaky)
       THEN /\ stored' = stored \ {tasks[i]}
            /\ tstate' = [tstate EXCEPT ![i] = "done"]
            /\ pc' = pc
       ELSE /\ stored' = stored
            /\ tstate' = [tstate EXCEPT ![i] = "failed"]
            /\ pc' = "raised"
    /\ UNCHANGED <<slices, chunk_size, remaining, gen, chunk, di, acc, created,
                   composeLog, issued, tasks, flaky, elapsed, lastGap, yielded>>

\* mutant: a worker whose delete raises tries again and never gives up
FinishDelete_RetriesForever(i) ==
    /\ tstate[i] = "running"
    /\ IF DeleteSucceeds(tasks[i], stored, flaky)
       THEN /\ stored' = stored \ {tasks[i]}
            /\ tstate' = [tstate EXCEPT ![i] = "done"]
       ELSE /\ stored' = stored
            /\ tstate' = tstate
    /\ UNCHANGED <<slices, chunk_size, remaining, gen, chunk, di, pc, acc, created,
                   composeLog, issued, tasks, flaky, elapsed, lastGap, yielded>>

\* blob.delete returns or raises; the exception stays in the discarded Future
FinishDelete(i) ==
    /\ tstate[i] = "running"
    /\ IF DeleteSucceeds(tasks[i], stored, flaky)
       THEN /\ stored' = stored \ {tasks[i]}
            /\ tstate' = [tstate EXCEPT ![i] = "done"]
       ELSE /\ stored' = stored
            /\ tstate' = [tstate EXCEPT ![i] = "failed"]
    /\ UNCHANGED <<slices, chunk_size, remaining, gen, chunk, di, pc, acc, created,
                   composeLog, issued, tasks, flaky, elapsed, lastGap, yielded>>

(***************************************************************************)
(* Inputs and the specification of a compose run                           *)
(***************************************************************************)
\* n pairwise distinct slices
Distinct(n) == [i \in 1..n |-> i]

\* the last slice is the first one again
WithDup(n) == [i \in 1..n |-> IF i = n THEN 1 ELSE i]

\* the first slice is the object at object_path
WithDest(n) == [i \in 1..n |-> IF i = 1 THEN Dest ELSE i]

SliceCounts == {0, 1, 2, DefaultChunkSize, MaxSlices}

SliceLists ==
    {Distinct(n) : n \in SliceCounts}
        \cup {WithDup(n) : n \in {2, MaxSlices}}
        \cup {WithDest(n) : n \in {2, MaxSlices}}

\* the gateway rejects no delete, or (for the longest lists of existing
\* slices) every delete of slice 1
FlakySets(s) ==
    IF s \in {Distinct(MaxSlices), WithDup(MaxSlices)} THEN {{}, {1}} ELSE {{}}

Init ==
    /\ slices \in SliceLists
    /\ chunk_size = DefaultChunkSize
    /\ remaining = slices
    /\ gen = "fresh"
    /\ chunk = <<>>
    /\ di = 1
    /\ pc = "create"
    /\ stored = Range(slices)
    /\ acc = IF Dest \in Range(slices) THEN <<Dest>> ELSE <<>>
    /\ created = 0
    /\ composeLog = <<>>
    /\ issued = 0
    /\ tasks = <<>>
    /\ tstate = <<>>
    /\ flaky \in FlakySets(slices)
    /\ elapsed = MutationInterval
    /\ lastGap = MutationInterval
    /\ yielded = <<>>

Next ==
    \/ Upload
    \/ UploadFails
    \/ NextChunk
    \/ Return
    \/ ComposeOk
    \/ ComposeFails
    \/ Submit
    \/ Pause
    \/ StartDelete
    \/ \E i \in 1..Len(tstate) : FinishDelete(i)

Spec == Init /\ [][Next]_vars

\* the steps of the main thread, which runs compose
ComposerStep ==
    \/ Upload
    \/ UploadFails
    \/ NextChunk
    \/ Return
    \/ ComposeOk
    \/ ComposeFails
    \/ Submit
    \/ Pause

\* the steps of the executor's workers
WorkerStep == StartDelete \/ \E i \in 1..Len(tstate) : FinishDelete(i)

\* the main thread and the workers keep running
Fairness == WF_vars(ComposerStep) /\ WF_vars(WorkerStep)

\* every run of Spec, with the threads running
SpecLiveAll == Spec /\ Fairness

\* the runs on the short lists and on the longest list with a rejected delete
InitLive ==
    /\ Init
    /\ Len(slices) <= 2 \/ (slices = Distinct(MaxSlices) /\ flaky # {})

SpecLive == InitLive /\ [][Next]_vars /\ Fairness

(***************************************************************************)
(* compose of src/list-files.py (lines 39-70): the same fold, the cleanup  *)
(* commented out                                                           *)
(***************************************************************************)
\* list-files.py lines 66-68: after the compose call, sleep(1)
PauseNoCleanup ==
    /\ pc = "dispatch"
    /\ elapsed' = Elapse(elapsed, PauseAfterCompose)
    /\ pc' = "iterate"
    /\ UNCHANGED <<slices, chunk_size, remaining, gen, chunk, di, stored, acc, created,
                   composeLog, issued, tasks, tstate, flaky, lastGap, yielded>>

NextListFiles ==
    \/ Upload
    \/ UploadFails
    \/ NextChunk
    \/ Return
    \/ ComposeOk
    \/ ComposeFails
    \/ PauseNoCleanup

SpecListFiles == Init /\ [][NextListFiles]_vars

(***************************************************************************)
(* The chunker alone: a consumer that drains generate_composition_chunks   *)
(***************************************************************************)
RECURSIVE SeqsUpTo(_, _)
\* the sequences over S of length at most n
SeqsUpTo(S, n) ==
    IF n = 0 THEN {<<>>}
    ELSE LET shorter == SeqsUpTo(S, n - 1)
         IN  shorter \cup {Append(t, x) : t \in shorter, x \in S}

ChunkerLists == SeqsUpTo(1..MaxName, MaxLen) \cup {Distinct(LongLen)}

ChunkSizes == ((-MaxChunkSize)..MaxChunkSize) \cup {DefaultChunkSize}

\* next() on the generator yields a chunk (lines 32-34); a consumer of a list
\* of n slices asks for at most n + 1 chunks
Collect ==
    /\ pc = "chunker"
    /\ Len(yielded) <= Len(slices)
    /\ ~GenExhausted(remaining, gen, chunk_size)
    /\ remaining' = GenAdvance(remaining, gen, chunk_size)
    /\ gen' = "suspended"
    /\ yielded' = Append(yielded, GenChunk(remaining, gen, chunk_size))
    /\ UNCHANGED <<slices, chunk_size, chunk, di, pc, stored, acc, created, composeLog,
                   issued, tasks, tstate, flaky, elapsed, lastGap>>

\* next() on the generator raises StopIteration (line 32)
Exhaust ==
    /\ pc = "chunker"
    /\ GenExhausted(remaining, gen, chunk_size)
    /\ remaining' = GenAdvance(remaining, gen, chunk_size)
    /\ gen' = "finished"
    /\ pc' = "exhausted"
    /\ UNCHANGED <<slices, chunk_size, chunk, di, stored, acc, created, composeLog,
                   issued, tasks, tstate, flaky, elapsed, lastGap, yielded>>

InitChunker ==
    /\ slices \in ChunkerLists
    /\ chunk_size \in ChunkSizes
    /\ remaining = slices
    /\ gen = "fresh"
    /\ chunk = <<>>
    /\ di = 1
    /\ pc = "chunker"
    /\ stored = Range(slices)
    /\ acc = <<>>
    /\ created = 0
    /\ composeLog = <<>>
    /\ issued = 0
    /\ tasks = <<>>
    /\ tstate = <<>>
    /\ flaky = {}
    /\ elapsed = MutationInterval
    /\ lastGap = MutationInterval
    /\ yielded = <<>>

NextChunker == Collect \/ Exhaust

SpecChunker == InitChunker /\ [][NextChunker]_vars

(***************************************************************************)
(* Vocabulary of the properties                                            *)
(***************************************************************************)
RECURSIVE Flatten(_)
\* the concatenation of a sequence of sequences
Flatten(ss) == IF ss = <<>> THEN <<>> ELSE Head(ss) \o Flatten(Tail(ss))

\* the number of chunks of size k that n slices need
CeilDiv(n, k) == (n + k - 1) \div k

\* what the objects named by s held when compose was called
OriginalContent(s) == ConcatContents(s, <<Dest>>)

\* the slices folded so far: the inputs after the accumulator of every
\* compose call that returned, in call order
FoldedSlices == Flatten([c \in 1..Len(composeLog) |-> Tail(composeLog[c])])

\* the object at object_path is not among the slices
NoAlias == Dest \notin Range(slices)

\* every submitted delete has returned or raised
Quiescent == \A i \in 1..Len(tstate) : tstate[i] \in {"done", "failed"}

\* what the main thread owns
composerVars == <<slices, chunk_size, remaining, gen, chunk, di, pc, acc, created,
                  composeLog, issued, tasks, elapsed, lastGap>>

(***************************************************************************)
(* Properties                                                              *)
(***************************************************************************)
\* C1: when compose returns, the accumulator exists and holds the contents
\* the slices had at the call, concatenated in list order, for every list.
C1_FoldedInOrder ==
    pc = "done" => Dest \in stored /\ acc = OriginalContent(slices)

\* The statement of C1 for the lists that do not name the object at
\* object_path: it holds there.
FoldedInOrder_NoAlias ==
    (pc = "done" /\ NoAlias) => Dest \in stored /\ acc = slices

\* C2: a run that returns issued ceil(N/K) compose calls, all successful, the
\* first calls folding K slices each and the last one the rest, and created
\* the accumulator exactly once; with no slice it issued none.
C2_ComposeCallCount ==
    pc = "done" =>
        /\ created = 1
        /\ issued = CeilDiv(Len(slices), chunk_size)
        /\ Len(composeLog) = issued
        /\ (Len(slices) = 0 => issued = 0)
        /\ \A c \in 1..issued :
              Len(composeLog[c]) - 1 =
                  IF c < issued THEN chunk_size
                  ELSE Len(slices) - (issued - 1) * chunk_size

C2_Witness == pc = "done" /\ Len(slices) = MaxSlices /\ issued = 2 /\ created = 1

\* C3: for K >= 1 every yielded chunk is non-empty and no longer than K, every
\* chunk but the last has exactly K slices, the chunks yielded so far
\* concatenate to a prefix of the list, and to the list once exhausted.
C3_ChunksPartitionInput ==
    chunk_size >= 1 =>
        /\ \A c \in 1..Len(yielded) :
              /\ Len(yielded[c]) >= 1
              /\ Len(yielded[c]) <= chunk_size
              /\ (c < Len(yielded) => Len(yielded[c]) = chunk_size)
        /\ Len(Flatten(yielded)) <= Len(slices)
        /\ Flatten(yielded) = SubSeq(slices, 1, Len(Flatten(yielded)))
        /\ (pc = "chunker" /\ Len(Flatten(yielded)) < Len(slices) /\ yielded # <<>>
               => Len(yielded[Len(yielded)]) = chunk_size)
        /\ (pc = "exhausted" => Flatten(yielded) = slices)

C3_Witness ==
    /\ pc = "exhausted"
    /\ chunk_size >= 2
    /\ Len(yielded) >= 2
    /\ Len(yielded[Len(yielded)]) < chunk_size
    /\ slices[1] # slices[2]

\* C4: the submitted delete tasks are, in order, a prefix of the slices of
\* the chunks whose compose call returned: no task exists for a slice of a
\* chunk that is not folded yet, also after a compose call failed.
C4_DeleteOnlyAfterCompose ==
    /\ Len(tasks) <= Len(FoldedSlices)
    /\ tasks = SubSeq(FoldedSlices, 1, Len(tasks))

C4_Witness ==
    /\ pc = "raised"
    /\ issued = 2
    /\ Len(tasks) = DefaultChunkSize
    /\ \E i \in 1..Len(tstate) : tstate[i] = "done"

C6_FailureLeavesPrefix ==
    (pc = "raised" /\ created = 1) =>
        /\ issued = Len(composeLog) + 1
        /\ Dest \in stored
        /\ acc = OriginalContent(FoldedSlices)

\* The statement of C6 for the lists that do not name the object at
\* object_path: it holds there.
FailureLeavesPrefix_NoAlias ==
    (pc = "raised" /\ created = 1 /\ NoAlias) =>
        /\ issued = Len(composeLog) + 1
        /\ Dest \in stored
        /\ acc = FoldedSlices
        /\ FoldedSlices = SubSeq(slices, 1, Len(FoldedSlices))

\* C7: no delete task targets the accumulator, and once created it exists.
C7_AccumulatorNeverDeleted ==
    /\ Dest \notin Range(tasks)
    /\ (created >= 1 => Dest \in stored)

\* The statement of C7 for the lists that do not name the object at
\* object_path: it holds there.
AccumulatorNeverDeleted_NoAlias ==
    NoAlias => Dest \notin Range(tasks) /\ (created >= 1 => Dest \in stored)

\* C8: a delete that raises changes nothing of the main thread, of the bucket
\* or of the other tasks; while a task is pending a worker can take or finish
\* one; and when everything has finished after a return, every slice was
\* submitted and every slice the gateway accepts to delete is gone.
C8_DeleteFailureIsIsolated ==
    /\ [][\A i \in 1..Len(tstate) :
            (tstate[i] = "running" /\ tstate'[i] = "failed") =>
                /\ UNCHANGED composerVars
                /\ stored' = stored
                /\ \A j \in (1..Len(tstate)) \ {i} : tstate'[j] = tstate[j]]_vars
    /\ [](~Quiescent => ENABLED (StartDelete \/ \E i \in 1..Len(tstate) : FinishDelete(i)))
    /\ []((pc = "done" /\ Quiescent) =>
            /\ tasks = slices
            /\ \A j \in 1..Len(tasks) : tasks[j] \notin flaky => tasks[j] \notin stored)

C8_Witness ==
    /\ pc = "done"
    /\ Quiescent
    /\ Len(slices) = MaxSlices
    /\ NoAlias
    /\ tstate[1] = "failed"
    /\ \A j \in 2..Len(tstate) : tstate[j] = "done"

\* C9: at most PoolSize deletes are in flight.
C9_InFlightBounded == Cardinality(Running) <= PoolSize

C9_Witness == Cardinality(Running) = PoolSize /\ Queued # {}

\* C10: from the second compose call on, a call is issued at least the
\* mutation interval after the call before it.
C10_ComposeCallsSpaced == issued >= 2 => lastGap >= MutationInterval

C10_Witness == issued = 2 /\ pc = "dispatch" /\ lastGap >= MutationInterval

\* C11: every compose call, the first one included, is issued at least the
\* mutation interval after the mutation of the accumulator before it (the
\* upload that created it, or the compose call before).
C11_EveryMutationSpaced == issued >= 1 => lastGap >= MutationInterval

\* C12: with a chunk size K <= 0 the chunker yields no chunk.
C12_InvalidSizeYieldsNothing == chunk_size <= 0 => yielded = <<>>

\* the slices of the c-th chunk of the caller's list
ChunkOf(c) ==
    SubSeq(slices, (c - 1) * chunk_size + 1, Min(c * chunk_size, Len(slices)))

\* C13: the inputs of every compose call are the accumulator followed by the
\* slices of the call's chunk in list order, at most K + 1 objects.
C13_ComposeInputsShape ==
    /\ \A c \in 1..Len(composeLog) :
          /\ composeLog[c] = <<Dest>> \o ChunkOf(c)
          /\ Len(composeLog[c]) <= chunk_size + 1
    /\ pc = "compose" =>
          /\ chunk = <<Dest>> \o ChunkOf(issued + 1)
          /\ Len(chunk) <= chunk_size + 1

C13_Witness ==
    /\ pc = "compose"
    /\ issued = 1
    /\ Len(composeLog[1]) = chunk_size + 1
    /\ Len(chunk) = 2

\* C14: while compose has not returned or raised, the main thread can take
\* its next step whatever the state of the submitted deletes.
C14_ComposerNeverWaits ==
    pc \in {"create", "iterate", "compose", "dispatch"} => ENABLED ComposerStep

\* the second compose call was issued while no delete had even started
C14_Witness ==
    /\ issued = 2
    /\ Len(tstate) >= DefaultChunkSize
    /\ \A i \in 1..Len(tstate) : tstate[i] = "queued"

C16_ComposeTerminates ==
    /\ <>(pc \in {"done", "raised"})
    /\ [][(pc = "iterate" /\ gen = "suspended" /\ pc' # pc)
            => Len(remaining') < Len(remaining)]_vars
    /\ [](pc = "raised" => created = 0 \/ issued > Len(composeLog))

C16_Witness == pc = "done" /\ issued = 2 /\ remaining = <<>> /\ Len(slices) = MaxSlices

\* no object is named twice in the list
PairwiseDistinct(s) == \A i, j \in 1..Len(s) : s[i] = s[j] => i = j

\* C17: for a list of pairwise distinct slices, every slice still exists or
\* its content is in the existing accumulator.
C17_NoDataLoss ==
    PairwiseDistinct(slices) =>
        \A i \in 1..Len(slices) :
            slices[i] \in stored \/ (Dest \in stored /\ slices[i] \in Range(acc))

\* The statement of C17 for the lists that do not name the object at
\* object_path, with or without duplicates: it holds there.
NoDataLoss_NoAlias ==
    NoAlias =>
        \A i \in 1..Len(slices) :
            slices[i] \in stored \/ (Dest \in stored /\ slices[i] \in Range(acc))

\* C18: for a list of pairwise distinct slices without the destination, the
\* slices handed to a compose call have no delete submitted and exist.
C18_NoSubmittedInput ==
    (pc = "compose" /\ NoAlias /\ PairwiseDistinct(slices)) =>
        /\ Range(Tail(chunk)) \cap Range(tasks) = {}
        /\ Range(Tail(chunk)) \subseteq stored

C18_Witness ==
    /\ pc = "compose"
    /\ issued = 1
    /\ Running # {}
    /\ \E i \in 1..Len(tstate) : tstate[i] = "done"
    /\ NoAlias
    /\ PairwiseDistinct(slices)

\* C19: no step changes the caller's list.
C19_CallerListUnchanged == [][slices' = slices]_vars

\* compose has returned: the generator's list is used up and the last chunk
\* got the accumulator prepended, next to the caller's list of MaxSlices
C19_Witness ==
    /\ pc = "done"
    /\ Len(slices) = MaxSlices
    /\ remaining = <<>>
    /\ chunk = <<Dest, slices[MaxSlices]>>

RECURSIVE AccAfter(_)
\* the accumulator after the first n chunks were folded into the empty object
AccAfter(n) ==
    IF n = 0 THEN <<>>
    ELSE ConcatContents(<<Dest>> \o ChunkOf(n), AccAfter(n - 1))

\* the calls compose has made and what they left in the accumulator are those
\* of a fold of the list by chunks, and the next call finds its inputs
SameFold ==
    /\ \A c \in 1..Len(composeLog) : composeLog[c] = <<Dest>> \o ChunkOf(c)
    /\ created = 1 => acc = AccAfter(Len(composeLog))
    /\ pc = "compose" => InputsExist(chunk, stored)
    /\ pc = "done" => Len(composeLog) = CeilDiv(Len(slices), chunk_size)

\* The fold of list-files.py, checked under SpecListFiles: it is SameFold, no
\* delete is submitted and every slice stays in the bucket.
ListFilesFold == SameFold /\ tasks = <<>> /\ Range(slices) \subseteq stored

\* C20: the run with cleanup makes the calls and builds the accumulator of
\* the run without cleanup, for every list.
C20_CleanupKeepsFold == SameFold

\* The statement of C20 for the lists of pairwise distinct slices that do not
\* name the object at object_path: it holds there.
CleanupKeepsFold_DistinctNoAlias ==
    (PairwiseDistinct(slices) /\ NoAlias) => SameFold

====
